---- MODULE Spec2Model ----
(***************************************************************************)
(* Model of the verified-address-access framework (safe_abstraction) and   *)
(* of its consumers in the realm-service interface: the host-call overlay  *)
(* (rsi/hostcall.rs) and the RIPAS handlers (rsi/ripas.rs).                *)
(***************************************************************************)
EXTENDS Integers, Naturals, Sequences, FiniteSets, TLC

\* ------------------------------------------------------------------ bounds
\* Number of granules above the page that contains the null address.
NumGranules == 1
\* Number of tokens a handling scope holds at the same time.
MaxTokens == 1

\* --------------------------------------------------------------- constants
\* Granule size (hostcall.rs: 2 + 6 + 7*8 + 4032 bytes, asserted equal).
GRANULE_SIZE == 4096
\* core::mem::align_of::<usize>() on the 64-bit target.
WORD_ALIGN == 8

\* States of the granule-ownership state machine.
GranuleState == {"Undelegated", "Delegated", "Data"}

\* Granule indices: 0 is the page that contains the null address.
Granules == 0..NumGranules
\* Granules the granule table holds a state for: the page behind the last
\* one a caller can name is a granule too.
TableGranules == 0..(NumGranules + 1)
\* Offsets inside a granule: granule-aligned, misaligned, and word-aligned
\* (the last word of the granule).
Offsets == {0, 4, GRANULE_SIZE - WORD_ALIGN}
\* Candidate addresses a caller can pass.
Addrs == {g * GRANULE_SIZE + off : g \in Granules, off \in Offsets}
\* Addresses in the memory the granule table tracks.
DramAddrs == {a \in Addrs : a >= GRANULE_SIZE}
\* Values of the 16-bit discriminant found in memory.
ImmVals == {0, 1}
\* Types that implement SafetyChecked + SafetyAssured, the bound of the T of
\* with and mut_with: the host-call overlay and one more overlay.
OverlayTypes == {"HostCall", "Overlay"}

VARIABLES
    granule,    \* granule index -> GranuleState (the ownership oracle)
    mem,        \* DRAM address -> the u16 stored there (HostCall.imm)
    tokens,     \* addresses wrapped by the live SafetyAssumed values
    call,       \* the last operation of the framework, with its outcome
    phase,      \* who runs: "host", "enter", "realm", "rsi_set", "rsi_get"
    regs,       \* general-purpose registers 0..4 of the calling vCPU
    rec,        \* pending RIPAS request of the execution context (Rec)
    run,        \* the run record shared with the host (Run)
    ret0,       \* ret[0] of the command that entered the REC
    rsi,        \* the last RIPAS handler that ran, with its result
    rtt,        \* protected page index -> RIPAS of the page (stage 2 table)
    queried,    \* whether the last get handler queried the stage 2 table
    hostcall,   \* a HostCall value: its discriminant and register slots
    hc          \* the last HostCall method that ran, with its result

vvars == <<granule, mem, tokens, call>>
rvars == <<phase, regs, rec, run, ret0, rsi>>
gvars == <<rtt, queried>>
hvars == <<hostcall, hc>>
xvars == <<rtt, queried, hostcall, hc>>

\* ------------------------------------------------------- address capability
\* RawPtr::addr of the reference materialized at addr.
addr_of(addr) == addr

\* SafetyChecked::is_not_null, called on `&*(addr as *const T)`.  A null
\* reference is undefined behaviour: a build that relies on references
\* being non-null folds the test to true (folded = TRUE).
is_not_null(addr, folded) ==
    IF addr = 0 THEN ~folded ELSE TRUE

\* SafetyChecked::is_aligned: addr % align_of::<usize>() == 0.  A misaligned
\* reference is undefined behaviour: a build that relies on the alignment
\* of references folds the test to true (folded = TRUE).
is_aligned(addr, folded) ==
    IF addr_of(addr) % WORD_ALIGN = 0 THEN TRUE ELSE folded

\* self.addr() & !(GRANULE_SIZE - 1)
align_down(addr) == addr_of(addr) - (addr_of(addr) % GRANULE_SIZE)

\* get_granule_if!(addr, state).is_ok()
get_granule_if(g, addr, state) ==
    /\ (addr \div GRANULE_SIZE) \in DOMAIN g
    /\ g[addr \div GRANULE_SIZE] = state

\* <HostCall as SafetyChecked>::has_permission
has_permission_delegated(g, addr) ==
    get_granule_if(g, align_down(addr), "Delegated")

has_permission(g, addr) == get_granule_if(g, align_down(addr), "Data")

\* <HostCall as SafetyAssured>
initialized == TRUE
lifetime == TRUE
ownership == TRUE

None == [some |-> FALSE, addr |-> 0]
Some(addr) == [some |-> TRUE, addr |-> addr]

\* The six checks of the Verification Procedure.
AllChecks == {"is_not_null", "is_aligned", "has_permission",
              "initialized", "lifetime", "ownership"}

\* raw_ptr::assume::<HostCall>(addr): the token, the checks that ran and the
\* checks that returned true.  `&&` evaluates its right operand only when
\* the left one is true; `assured` is bound before `checked && assured`.
assume_token_align_down(addr, g, folded) ==
    LET nn == is_not_null(addr, folded)
        al == is_aligned(addr, folded)
        hp == has_permission(g, addr)
    IN [ret |-> IF nn /\ al /\ hp THEN Some(align_down(addr)) ELSE None,
        ran |-> {"is_not_null", "initialized", "lifetime", "ownership"}
                \cup (IF nn THEN {"is_aligned"} ELSE {})
                \cup (IF nn /\ al THEN {"has_permission"} ELSE {}),
        passed |-> {"initialized", "lifetime", "ownership"}
                \cup (IF nn THEN {"is_not_null"} ELSE {})
                \cup (IF nn /\ al THEN {"is_aligned"} ELSE {})
                \cup (IF nn /\ al /\ hp THEN {"has_permission"} ELSE {})]

assume_assured_after_checked(addr, g, folded) ==
    LET nn == is_not_null(addr, folded)
        al == is_aligned(addr, folded)
        hp == has_permission(g, addr)
        checked == nn /\ al /\ hp
    IN [ret |-> IF checked THEN Some(addr) ELSE None,
        ran |-> {"is_not_null"}
                \cup (IF nn THEN {"is_aligned"} ELSE {})
                \cup (IF nn /\ al THEN {"has_permission"} ELSE {})
                \cup (IF checked
                      THEN {"initialized", "lifetime", "ownership"} ELSE {}),
        passed |-> (IF nn THEN {"is_not_null"} ELSE {})
                \cup (IF nn /\ al THEN {"is_aligned"} ELSE {})
                \cup (IF checked
                      THEN {"has_permission", "initialized", "lifetime",
                            "ownership"} ELSE {})]

assume(addr, g, folded) ==
    LET nn == is_not_null(addr, folded)
        al == is_aligned(addr, folded)
        hp == has_permission(g, addr)
        checked == nn /\ al /\ hp
        assured == initialized /\ lifetime /\ ownership
        ran1 == {"is_not_null"}
                \cup (IF nn THEN {"is_aligned"} ELSE {})
                \cup (IF nn /\ al THEN {"has_permission"} ELSE {})
        ran2 == {"initialized"}
                \cup (IF initialized THEN {"lifetime"} ELSE {})
                \cup (IF initialized /\ lifetime THEN {"ownership"} ELSE {})
        ok1 == (IF nn THEN {"is_not_null"} ELSE {})
                \cup (IF nn /\ al THEN {"is_aligned"} ELSE {})
                \cup (IF checked THEN {"has_permission"} ELSE {})
        ok2 == (IF initialized THEN {"initialized"} ELSE {})
                \cup (IF initialized /\ lifetime THEN {"lifetime"} ELSE {})
                \cup (IF assured THEN {"ownership"} ELSE {})
    IN [ret |-> IF checked /\ assured THEN Some(addr) ELSE None,
        ran |-> ran1 \cup ran2,
        passed |-> ok1 \cup ok2]

\* SafetyAssumed::with::<HostCall>(|hc| hc.imm())
with(m, addr) == m[addr]

\* SafetyAssumed::mut_with::<HostCall>(|hc| hc.imm())
mut_with(m, addr) == m[addr]

\* ------------------------------------------------------------------ actions
NoCall == [op |-> "none", addr |-> 0, ret |-> None, ran |-> {},
           passed |-> {}, state |-> "Undelegated", value |-> 0,
           type |-> "HostCall"]

VInit ==
    /\ granule = [g \in TableGranules |-> "Undelegated"]
    /\ mem = [a \in DramAddrs |-> 0]
    /\ tokens = {}
    /\ call = NoCall

\* The granule subsystem moves a granule to another state.  The page that
\* contains the null address is not memory the granule table tracks.  A
\* granule is wiped when it changes state (Granule Wiping, the rule
\* is_initialized relies on).
GranuleTransition(g, s) ==
    /\ g # 0
    /\ granule[g] # s
    /\ granule' = [granule EXCEPT ![g] = s]
    /\ mem' = [a \in DOMAIN mem |->
                 IF a \div GRANULE_SIZE = g THEN 0 ELSE mem[a]]
    /\ call' = [NoCall EXCEPT !.op = "granule"]
    /\ UNCHANGED tokens
    /\ UNCHANGED <<rvars, xvars>>

\* The realm stores a discriminant in its memory between two calls.
RealmWrite(a, v) ==
    /\ granule[a \div GRANULE_SIZE] = "Data"
    /\ mem[a] # v
    /\ mem' = [mem EXCEPT ![a] = v]
    /\ call' = [NoCall EXCEPT !.op = "write"]
    /\ UNCHANGED <<granule, tokens>>
    /\ UNCHANGED <<rvars, xvars>>

\* A handler calls assume::<HostCall>(a) and keeps the token, if any.
Assume_takes_granule(a, folded) ==
    LET r == assume(a, granule, folded)
        i == a \div GRANULE_SIZE IN
    /\ Cardinality(tokens) < MaxTokens
    /\ tokens' = IF r.ret.some THEN tokens \cup {r.ret.addr} ELSE tokens
    /\ call' = [op |-> "assume", addr |-> a, ret |-> r.ret, ran |-> r.ran,
                passed |-> r.passed, state |-> granule[i], value |-> 0,
                type |-> "HostCall"]
    /\ granule' = IF "has_permission" \in r.passed
                  THEN [granule EXCEPT ![i] = "Delegated"] ELSE granule
    /\ UNCHANGED mem
    /\ UNCHANGED <<rvars, xvars>>

Assume(a, folded) ==
    LET r == assume(a, granule, folded) IN
    /\ Cardinality(tokens) < MaxTokens
    /\ tokens' = IF r.ret.some THEN tokens \cup {r.ret.addr} ELSE tokens
    /\ call' = [op |-> "assume", addr |-> a, ret |-> r.ret, ran |-> r.ran,
                passed |-> r.passed,
                state |-> granule[a \div GRANULE_SIZE], value |-> 0,
                type |-> "HostCall"]
    /\ UNCHANGED <<granule, mem>>
    /\ UNCHANGED <<rvars, xvars>>

\* A handler reads the memory behind a token as a T: with::<T, _, _>.
With(a, T) ==
    /\ a \in tokens
    /\ call' = [NoCall EXCEPT !.op = "with", !.addr = a,
                              !.value = with(mem, a), !.type = T]
    /\ UNCHANGED <<granule, mem, tokens>>
    /\ UNCHANGED <<rvars, xvars>>

MutWith(a, T) ==
    /\ a \in tokens
    /\ call' = [NoCall EXCEPT !.op = "mut_with", !.addr = a,
                              !.value = mut_with(mem, a), !.type = T]
    /\ UNCHANGED <<granule, mem, tokens>>
    /\ UNCHANGED <<rvars, xvars>>

\* The token goes out of scope at the end of the handler.
Drop(a) ==
    /\ a \in tokens
    /\ tokens' = tokens \ {a}
    /\ call' = [NoCall EXCEPT !.op = "drop", !.addr = a]
    /\ UNCHANGED <<granule, mem>>
    /\ UNCHANGED <<rvars, xvars>>

VNext ==
    \/ \E g \in TableGranules, s \in GranuleState : GranuleTransition(g, s)
    \/ \E a \in DramAddrs, v \in ImmVals : RealmWrite(a, v)
    \/ \E a \in Addrs, folded \in BOOLEAN : Assume(a, folded)
    \/ \E a \in Addrs, T \in OverlayTypes : With(a, T)
    \/ \E a \in Addrs, T \in OverlayTypes : MutWith(a, T)
    \/ \E a \in Addrs : Drop(a)

\* ------------------------------------------------------------ RIPAS handlers
\* IPA width of the realm (rec.ipa_bits()).
IPA_BITS == 14

\* Result codes and flags of the realm-service and realm-management
\* interfaces.
rsi_SUCCESS == 0
rsi_ERROR_INPUT == 1
rmi_SUCCESS == 0
rmi_SUCCESS_REC_ENTER == 4
EXIT_SYNC == 0
EXIT_RIPAS_CHANGE == 4
EMPTY == 0
RAM == 1
REC_ENTRY_FLAG_RIPAS_RESPONSE == 16
\* Function number of RSI_IPA_STATE_SET, which x0 holds when the call traps.
RSI_IPA_STATE_SET == 407
\* An 8-bit value has 2^8 values (`as u8`).
U8 == 256

\* Size of the protected half of the realm's IPA space.
ParSize == 2 ^ (IPA_BITS - 1)

\* Values the realm puts in x1 and x2 (start and end of the range).
IpaVals == {0, GRANULE_SIZE, GRANULE_SIZE + 4, ParSize,
            ParSize + GRANULE_SIZE}
\* Values the realm puts in x3 (requested state) and x4 (flags).
StateVals == {EMPTY, RAM, 2, U8 + EMPTY, U8 + RAM}
FlagVals == {0, 1}
\* Contents of ret[0] and of the exit reason when the host enters the REC.
RetVals == {0, 1}
ExitVals == {EXIT_SYNC, EXIT_RIPAS_CHANGE}
EntryFlagVals == {0, 1, REC_ENTRY_FLAG_RIPAS_RESPONSE}

is_granule_aligned(addr) == addr % GRANULE_SIZE = 0

is_protected_ipa(ipa, ipa_bits) == ipa < 2 ^ (ipa_bits - 1)

\* get_reg(realmid, vcpuid, idx): fails when the realm or the vCPU is gone.
get_reg(rg, valid, idx) ==
    IF valid /\ idx \in DOMAIN rg THEN [ok |-> TRUE, val |-> rg[idx]]
    ELSE [ok |-> FALSE, val |-> 0]

\* set_reg(realmid, vcpuid, idx, val)
set_reg(rg, valid, idx, val) ==
    IF valid /\ idx \in DOMAIN rg
    THEN [ok |-> TRUE, regs |-> [rg EXCEPT ![idx] = val]]
    ELSE [ok |-> FALSE, regs |-> rg]

\* Rec::set_ripas(start, end, state, flags)
rec_set_ripas(start, end, state, flags) ==
    [start |-> start, end |-> end, addr |-> start, state |-> state,
     flags |-> flags]

\* Run::set_ripas(base, top, state) and Run::set_exit_reason(reason)
run_set_ripas(rn, base, top, state) ==
    [rn EXCEPT !.ripas_base = base, !.ripas_top = top, !.ripas_value = state]
run_set_exit_reason(rn, reason) == [rn EXCEPT !.exit_reason = reason]

\* fn is_ripas_valid(ripas: u8)
is_ripas_valid(ripas) == ripas \in {EMPTY, RAM}

\* `get_reg(realmid, vcpuid, 3)? as u8`
as_u8(v) == v % U8

\* The outcome of a handler: the state it leaves and what it returns.
Outcome(rg, rc, rn, r0, result) ==
    [regs |-> rg, rec |-> rc, run |-> rn, ret0 |-> r0, result |-> result]

\* set_ripas_state, both rejecting branches: write ERROR_INPUT to register
\* 0, ret[0] = SUCCESS_REC_ENTER, return Ok(()).
set_ripas_reject_as_err(rg, rc, rn, r0, valid) ==
    Outcome(rg, rc, rn, r0, "Err")

set_ripas_reject(rg, rc, rn, r0, valid) ==
    LET w == set_reg(rg, valid, 0, rsi_ERROR_INPUT) IN
    IF ~w.ok THEN Outcome(rg, rc, rn, r0, "Err")
    ELSE Outcome(w.regs, rc, rn, rmi_SUCCESS_REC_ENTER, "Ok")

\* set_ripas_state, the condition of the second rejecting branch.
set_ripas_malformed_no_end_check(ipa_start, ipa_end, ipa_state, ipa_bits) ==
    \/ ~is_granule_aligned(ipa_start)
    \/ ~is_ripas_valid(ipa_state)
    \/ ipa_end <= ipa_start
    \/ ~is_protected_ipa(ipa_start, ipa_bits)

set_ripas_malformed(ipa_start, ipa_end, ipa_state, ipa_bits) ==
    \/ ~is_granule_aligned(ipa_start)
    \/ ~is_granule_aligned(ipa_end)
    \/ ~is_ripas_valid(ipa_state)
    \/ ipa_end <= ipa_start
    \/ ~is_protected_ipa(ipa_start, ipa_bits)
    \/ ~is_protected_ipa(ipa_end - 1, ipa_bits)

\* set_ripas_state, the accepting branch.
set_ripas_accept_no_flags(rg, rc, rn, r0, ipa_start, ipa_end, ipa_state, flags) ==
    Outcome(rg,
            rec_set_ripas(ipa_start, ipa_end, ipa_state, 0),
            run_set_ripas(run_set_exit_reason(rn, EXIT_RIPAS_CHANGE),
                          ipa_start, ipa_end, ipa_state),
            rmi_SUCCESS, "Ok")

set_ripas_accept_writes_x0(rg, rc, rn, r0, ipa_start, ipa_end, ipa_state, flags) ==
    Outcome([rg EXCEPT ![0] = rsi_SUCCESS],
            rec_set_ripas(ipa_start, ipa_end, ipa_state, flags),
            run_set_ripas(run_set_exit_reason(rn, EXIT_RIPAS_CHANGE),
                          ipa_start, ipa_end, ipa_state),
            rmi_SUCCESS, "Ok")

set_ripas_accept(rg, rc, rn, r0, ipa_start, ipa_end, ipa_state, flags) ==
    Outcome(rg,
            rec_set_ripas(ipa_start, ipa_end, ipa_state, flags),
            run_set_ripas(run_set_exit_reason(rn, EXIT_RIPAS_CHANGE),
                          ipa_start, ipa_end, ipa_state),
            rmi_SUCCESS, "Ok")

\* pub fn set_ripas_state(_arg, ret, _rmm, rec, run)
set_ripas_state(rg, rc, rn, r0, valid) ==
    LET x1 == get_reg(rg, valid, 1)
        x2 == get_reg(rg, valid, 2)
        x3 == get_reg(rg, valid, 3)
        x4 == get_reg(rg, valid, 4)
        ipa_start == x1.val
        ipa_end == x2.val
        ipa_state == as_u8(x3.val)
        flags == x4.val
    IN  IF ~valid \/ ~x1.ok \/ ~x2.ok \/ ~x3.ok \/ ~x4.ok
        THEN Outcome(rg, rc, rn, r0, "Err")
        ELSE IF ipa_end <= ipa_start
        THEN set_ripas_reject(rg, rc, rn, r0, valid)
        ELSE IF set_ripas_malformed(ipa_start, ipa_end, ipa_state, IPA_BITS)
        THEN set_ripas_reject(rg, rc, rn, r0, valid)
        ELSE set_ripas_accept(rg, rc, rn, r0, ipa_start, ipa_end, ipa_state,
                              flags)

\* pub fn complete_ripas(rec, run)
complete_ripas_inverted(rg, rc, rn, r0, valid) ==
    LET w0 == set_reg(rg, valid, 0, rsi_SUCCESS)
        w1 == set_reg(w0.regs, valid, 1, rc.addr)
        response == IF (rn.entry_flags \div REC_ENTRY_FLAG_RIPAS_RESPONSE) % 2 # 0
                    THEN 0 ELSE 1
        w2 == set_reg(w1.regs, valid, 2, response)
    IN  IF ~valid THEN Outcome(rg, rc, rn, r0, "Err")
        ELSE IF rc.end > 0
        THEN Outcome(w2.regs, rec_set_ripas(0, 0, 0, 0), rn, r0, "Ok")
        ELSE Outcome(rg, rc, rn, r0, "Ok")

complete_ripas_keeps_pending(rg, rc, rn, r0, valid) ==
    LET w0 == set_reg(rg, valid, 0, rsi_SUCCESS)
        w1 == set_reg(w0.regs, valid, 1, rc.addr)
        response == IF (rn.entry_flags \div REC_ENTRY_FLAG_RIPAS_RESPONSE) % 2 # 0
                    THEN 1 ELSE 0
        w2 == set_reg(w1.regs, valid, 2, response)
    IN  IF ~valid THEN Outcome(rg, rc, rn, r0, "Err")
        ELSE IF rc.end > 0
        THEN Outcome(w2.regs, rc, rn, r0, "Ok")
        ELSE Outcome(rg, rc, rn, r0, "Ok")

complete_ripas_unguarded(rg, rc, rn, r0, valid) ==
    LET w0 == set_reg(rg, valid, 0, rsi_SUCCESS)
        w1 == set_reg(w0.regs, valid, 1, rc.addr)
        response == IF (rn.entry_flags \div REC_ENTRY_FLAG_RIPAS_RESPONSE) % 2 # 0
                    THEN 1 ELSE 0
        w2 == set_reg(w1.regs, valid, 2, response)
    IN  IF ~valid THEN Outcome(rg, rc, rn, r0, "Err")
        ELSE Outcome(w2.regs, rec_set_ripas(0, 0, 0, 0), rn, r0, "Ok")

complete_ripas(rg, rc, rn, r0, valid) ==
    LET ripas_addr == rc.addr
        w0 == set_reg(rg, valid, 0, rsi_SUCCESS)
        w1 == set_reg(w0.regs, valid, 1, ripas_addr)
        flags == rn.entry_flags
        response == IF (flags \div REC_ENTRY_FLAG_RIPAS_RESPONSE) % 2 # 0
                    THEN 1 ELSE 0
        w2 == set_reg(w1.regs, valid, 2, response)
    IN  IF ~valid THEN Outcome(rg, rc, rn, r0, "Err")
        ELSE IF rc.end > 0
        THEN IF ~w0.ok THEN Outcome(rg, rc, rn, r0, "Err")
             ELSE IF ~w1.ok THEN Outcome(w0.regs, rc, rn, r0, "Err")
             ELSE IF ~w2.ok THEN Outcome(w1.regs, rc, rn, r0, "Err")
             ELSE Outcome(w2.regs, rec_set_ripas(0, 0, 0, 0), rn, r0, "Ok")
        ELSE Outcome(rg, rc, rn, r0, "Ok")

NoRipas == rec_set_ripas(0, 0, 0, 0)

RInit ==
    /\ phase = "host"
    /\ regs = [i \in 0..4 |-> 0]
    /\ rec = NoRipas
    /\ run = [exit_reason |-> EXIT_SYNC, ripas_base |-> 0, ripas_top |-> 0,
              ripas_value |-> 0, entry_flags |-> 0]
    /\ ret0 = 0
    /\ rsi = [op |-> "none", valid |-> TRUE, result |-> "Ok"]

\* The host enters the REC: it supplies the entry flags of the run record,
\* and the command starts with its own ret[0].
HostEnter(flags, reason, r0) ==
    /\ phase = "host"
    /\ phase' = "enter"
    /\ run' = [run EXCEPT !.entry_flags = flags, !.exit_reason = reason]
    /\ ret0' = r0
    /\ rsi' = [op |-> "enter", valid |-> TRUE, result |-> "Ok"]
    /\ UNCHANGED <<regs, rec>>
    /\ UNCHANGED <<vvars, xvars>>

\* The execution-resume path completes a pending RIPAS request.
CompleteRipas(valid) ==
    LET o == complete_ripas(regs, rec, run, ret0, valid) IN
    /\ phase = "enter"
    /\ phase' = IF o.result = "Ok" THEN "realm" ELSE "host"
    /\ regs' = o.regs
    /\ rec' = o.rec
    /\ run' = o.run
    /\ ret0' = o.ret0
    /\ rsi' = [op |-> "complete", valid |-> valid, result |-> o.result]
    /\ UNCHANGED <<vvars, xvars>>

\* The realm issues RSI_IPA_STATE_SET with arguments of its choice.
RealmCallsSet(x1, x2, x3, x4) ==
    /\ phase = "realm"
    /\ phase' = "rsi_set"
    /\ regs' = [i \in 0..4 |->
                  CASE i = 0 -> RSI_IPA_STATE_SET
                    [] i = 1 -> x1
                    [] i = 2 -> x2
                    [] i = 3 -> x3
                    [] OTHER -> x4]
    /\ rsi' = [op |-> "call", valid |-> TRUE, result |-> "Ok"]
    /\ UNCHANGED <<rec, run, ret0>>
    /\ UNCHANGED <<vvars, xvars>>

\* The monitor handles the call.  A rejected request returns to the realm,
\* an accepted one exits toward the host, an error ends the command.
SetRipasState(valid) ==
    LET o == set_ripas_state(regs, rec, run, ret0, valid) IN
    /\ phase = "rsi_set"
    /\ phase' = IF o.result = "Ok" /\ o.ret0 = rmi_SUCCESS_REC_ENTER
                THEN "realm" ELSE "host"
    /\ regs' = o.regs
    /\ rec' = o.rec
    /\ run' = o.run
    /\ ret0' = o.ret0
    /\ rsi' = [op |-> "set", valid |-> valid, result |-> o.result]
    /\ UNCHANGED <<vvars, xvars>>

RNext ==
    \/ \E f \in EntryFlagVals, e \in ExitVals, r \in RetVals :
          HostEnter(f, e, r)
    \/ \E valid \in BOOLEAN : CompleteRipas(valid)
    \/ \E x1 \in IpaVals, x2 \in IpaVals, x3 \in StateVals, x4 \in FlagVals :
          RealmCallsSet(x1, x2, x3, x4)
    \/ \E valid \in BOOLEAN : SetRipasState(valid)
\* ------------------------------------------------------------ RIPAS get
\* Function number of RSI_IPA_STATE_GET.
RSI_IPA_STATE_GET == 408

\* Pages of the protected half of the realm's IPA space.
Pages == 0..((ParSize \div GRANULE_SIZE) - 1)
RipasVals == {EMPTY, RAM}

\* validate_ipa(ipa_page, ipa_bits).is_ok()
validate_ipa(ipa, ipa_bits) == is_protected_ipa(ipa, ipa_bits)

\* crate::rtt::get_ripas(realmid, ipa_page, RTT_PAGE_LEVEL)
rtt_get_ripas(pt, valid, ipa) ==
    IF valid /\ (ipa \div GRANULE_SIZE) \in DOMAIN pt
    THEN [ok |-> TRUE, val |-> pt[ipa \div GRANULE_SIZE]]
    ELSE [ok |-> FALSE, val |-> 0]

\* The outcome of the get handler: as Outcome, and whether it queried the
\* stage 2 table.
GetOutcome(rg, rc, rn, r0, result, q) ==
    [regs |-> rg, rec |-> rc, run |-> rn, ret0 |-> r0, result |-> result,
     queried |-> q]

\* pub fn get_ripas_state(_arg, ret, _rmm, rec, _run).  `valid` is the
\* outcome of the realm and vCPU lookups of the reads, `wvalid` the one of
\* the lookups of the register writes, whose failure the handler only logs.
get_ripas_state_error_propagates(rg, rc, rn, r0, pt, valid, wvalid) ==
    LET x1 == get_reg(rg, valid, 1)
        ipa_page == x1.val
        e0 == set_reg(rg, wvalid, 0, rsi_ERROR_INPUT)
        q == rtt_get_ripas(pt, valid, ipa_page)
        w0 == set_reg(rg, wvalid, 0, rsi_SUCCESS)
        w1 == set_reg(w0.regs, wvalid, 1, q.val)
    IN  IF ~valid \/ ~x1.ok THEN GetOutcome(rg, rc, rn, r0, "Err", FALSE)
        ELSE IF ~validate_ipa(ipa_page, IPA_BITS)
        THEN IF ~e0.ok THEN GetOutcome(rg, rc, rn, r0, "Err", FALSE)
             ELSE GetOutcome(e0.regs, rc, rn, r0, "Err", FALSE)
        ELSE IF ~q.ok THEN GetOutcome(rg, rc, rn, r0, "Err", TRUE)
        ELSE GetOutcome(w1.regs, rc, rn, rmi_SUCCESS_REC_ENTER, "Ok", TRUE)

get_ripas_state_swapped_registers(rg, rc, rn, r0, pt, valid, wvalid) ==
    LET x1 == get_reg(rg, valid, 1)
        ipa_page == x1.val
        e0 == set_reg(rg, wvalid, 0, rsi_ERROR_INPUT)
        q == rtt_get_ripas(pt, valid, ipa_page)
        w0 == set_reg(rg, wvalid, 1, rsi_SUCCESS)
        w1 == set_reg(w0.regs, wvalid, 0, q.val)
    IN  IF ~valid \/ ~x1.ok THEN GetOutcome(rg, rc, rn, r0, "Err", FALSE)
        ELSE IF ~validate_ipa(ipa_page, IPA_BITS)
        THEN GetOutcome(e0.regs, rc, rn, rmi_SUCCESS_REC_ENTER, "Ok", FALSE)
        ELSE IF ~q.ok THEN GetOutcome(rg, rc, rn, r0, "Err", TRUE)
        ELSE GetOutcome(w1.regs, rc, rn, rmi_SUCCESS_REC_ENTER, "Ok", TRUE)

get_ripas_state(rg, rc, rn, r0, pt, valid, wvalid) ==
    LET x1 == get_reg(rg, valid, 1)
        ipa_page == x1.val
        e0 == set_reg(rg, wvalid, 0, rsi_ERROR_INPUT)
        q == rtt_get_ripas(pt, valid, ipa_page)
        w0 == set_reg(rg, wvalid, 0, rsi_SUCCESS)
        w1 == set_reg(w0.regs, wvalid, 1, q.val)
    IN  IF ~valid \/ ~x1.ok THEN GetOutcome(rg, rc, rn, r0, "Err", FALSE)
        ELSE IF ~validate_ipa(ipa_page, IPA_BITS)
        THEN GetOutcome(e0.regs, rc, rn, rmi_SUCCESS_REC_ENTER, "Ok", FALSE)
        ELSE IF ~q.ok THEN GetOutcome(rg, rc, rn, r0, "Err", TRUE)
        ELSE GetOutcome(w1.regs, rc, rn, rmi_SUCCESS_REC_ENTER, "Ok", TRUE)

XInit ==
    /\ rtt = [p \in Pages |-> EMPTY]
    /\ queried = FALSE

\* The host changes the RIPAS of a protected page while the realm is out.
RttSetRipas(p, v) ==
    /\ phase = "host"
    /\ rtt[p] # v
    /\ rtt' = [rtt EXCEPT ![p] = v]
    /\ rsi' = [op |-> "rtt", valid |-> TRUE, result |-> "Ok"]
    /\ UNCHANGED <<phase, regs, rec, run, ret0, queried>>
    /\ UNCHANGED <<vvars, hvars>>

\* The realm issues RSI_IPA_STATE_GET for an address of its choice.
RealmCallsGet(x1) ==
    /\ phase = "realm"
    /\ phase' = "rsi_get"
    /\ regs' = [regs EXCEPT ![0] = RSI_IPA_STATE_GET, ![1] = x1]
    /\ rsi' = [op |-> "call", valid |-> TRUE, result |-> "Ok"]
    /\ UNCHANGED <<rec, run, ret0, rtt, queried>>
    /\ UNCHANGED <<vvars, hvars>>

\* The monitor handles the call and returns to the realm, or ends the
\* command with an error.
GetRipasState(valid) ==
    LET o == get_ripas_state(regs, rec, run, ret0, rtt, valid, valid) IN
    /\ phase = "rsi_get"
    /\ phase' = IF o.result = "Ok" THEN "realm" ELSE "host"
    /\ regs' = o.regs
    /\ rec' = o.rec
    /\ run' = o.run
    /\ ret0' = o.ret0
    /\ queried' = o.queried
    /\ rsi' = [op |-> "get", valid |-> valid, result |-> o.result]
    /\ UNCHANGED rtt
    /\ UNCHANGED <<vvars, hvars>>

GNext ==
    \/ \E f \in EntryFlagVals, e \in ExitVals, r \in RetVals :
          HostEnter(f, e, r)
    \/ \E valid \in BOOLEAN : CompleteRipas(valid)
    \/ \E p \in Pages, v \in RipasVals : RttSetRipas(p, v)
    \/ \E x1 \in IpaVals : RealmCallsGet(x1)
    \/ \E valid \in BOOLEAN : GetRipasState(valid)
\* ---------------------------------------------------------- host-call overlay
\* const HOST_CALL_NR_GPRS
HOST_CALL_NR_GPRS == 7
\* Largest register index a caller passes to set_gpr.
MaxIdx == 8
\* Values written to a register slot.
GprVals == {0, 1}

\* const PADDING: the sizes of padding0 and padding1.
PADDING_short == <<4, 4032>>
PADDING == <<6, 4032>>

\* #[repr(C)] struct HostCall: the fields in declaration order, with the
\* size and the alignment of each field's type in bytes (u16, [u8; _],
\* [u64; HOST_CALL_NR_GPRS], [u8; _]).
HostCallFields(pad) ==
    << [name |-> "imm", size |-> 2, align |-> 2],
       [name |-> "padding0", size |-> pad[1], align |-> 1],
       [name |-> "gprs", size |-> 8 * HOST_CALL_NR_GPRS, align |-> 8],
       [name |-> "padding1", size |-> pad[2], align |-> 1] >>

\* The next multiple of a at or above n.
round_up(n, a) == ((n + a - 1) \div a) * a

\* repr(C): a field starts at the end of the previous field, rounded up to
\* its own alignment.
RECURSIVE offset_of(_, _)
offset_of(fields, i) ==
    IF i = 1 THEN 0
    ELSE round_up(offset_of(fields, i - 1) + fields[i - 1].size,
                  fields[i].align)

\* repr(C): the alignment of the struct is the largest field alignment.
align_of(fields) ==
    CHOOSE a \in {fields[i].align : i \in DOMAIN fields} :
        \A i \in DOMAIN fields : fields[i].align <= a

\* repr(C): the size is the end of the last field, rounded up to the
\* alignment of the struct.
size_of(fields) ==
    round_up(offset_of(fields, Len(fields)) + fields[Len(fields)].size,
             align_of(fields))

\* Index of the field `name` in the declaration order.
field(fields, name) == CHOOSE i \in DOMAIN fields : fields[i].name = name

\* Byte offset of register slot idx inside the overlay.
gpr_offset(idx) ==
    offset_of(HostCallFields(PADDING), field(HostCallFields(PADDING), "gprs"))
        + 8 * idx

\* pub fn set_gpr(&mut self, idx: usize, val: u64) -> Result<(), Error>
set_gpr_off_by_one(h, idx, val) ==
    IF idx > HOST_CALL_NR_GPRS
    THEN [hostcall |-> h, ret |-> "RmiErrorInput"]
    ELSE [hostcall |-> [h EXCEPT !.gprs[idx] = val], ret |-> "Ok"]

set_gpr(h, idx, val) ==
    IF idx >= HOST_CALL_NR_GPRS
    THEN [hostcall |-> h, ret |-> "RmiErrorInput"]
    ELSE [hostcall |-> [h EXCEPT !.gprs[idx] = val], ret |-> "Ok"]

\* pub fn imm(&self) -> u16
imm(h) == h.imm

NoHostCall == [op |-> "none", idx |-> 0, val |-> 0, ret |-> "Ok",
               offset |-> 0, value |-> 0]

HInit ==
    /\ hostcall = [imm |-> 0, gprs |-> [i \in 0..(HOST_CALL_NR_GPRS - 1) |-> 0]]
    /\ hc = NoHostCall

\* The realm stores the discriminant of its host call in the overlay.
RealmSetsImm(v) ==
    /\ hostcall.imm # v
    /\ hostcall' = [hostcall EXCEPT !.imm = v]
    /\ hc' = [NoHostCall EXCEPT !.op = "realm"]
    /\ UNCHANGED <<vvars, rvars, gvars>>

\* The monitor copies a register value of the host into the overlay.
SetGpr(idx, val) ==
    LET r == set_gpr(hostcall, idx, val) IN
    /\ hostcall' = r.hostcall
    /\ hc' = [op |-> "set_gpr", idx |-> idx, val |-> val, ret |-> r.ret,
              offset |-> IF r.ret = "Ok" THEN gpr_offset(idx) ELSE 0,
              value |-> 0]
    /\ UNCHANGED <<vvars, rvars, gvars>>

\* The monitor reads the discriminant.
Imm ==
    /\ hc' = [NoHostCall EXCEPT !.op = "imm", !.value = imm(hostcall)]
    /\ UNCHANGED hostcall
    /\ UNCHANGED <<vvars, rvars, gvars>>

HNext ==
    \/ \E v \in ImmVals : RealmSetsImm(v)
    \/ \E idx \in 0..MaxIdx, val \in GprVals : SetGpr(idx, val)
    \/ Imm


\* ------------------------------------------------------------ specifications
vars == <<granule, mem, tokens, call, phase, regs, rec, run, ret0, rsi,
          rtt, queried, hostcall, hc>>
Init == VInit /\ RInit /\ XInit /\ HInit
Next == VNext
Spec == Init /\ [][Next]_vars
NextRipas == RNext
SpecRipas == Init /\ [][NextRipas]_vars
NextGet == GNext
SpecGet == Init /\ [][NextGet]_vars
NextHostCall == HNext
SpecHostCall == Init /\ [][NextHostCall]_vars

C2_Completeness ==
    [][/\ (/\ call'.op = "assume"
            /\ call'.addr # 0
            /\ call'.addr % WORD_ALIGN = 0
            /\ granule[align_down(call'.addr) \div GRANULE_SIZE] = "Data")
           => (call'.ret = Some(call'.addr) /\ call'.addr \in tokens')
       /\ call'.op = "with"
           => (call'.value = mem[call'.addr] /\ mem' = mem)]_vars

C2_Witness ==
    /\ call.op = "with"
    /\ call.addr = 2 * GRANULE_SIZE - WORD_ALIGN
    /\ call.value = 1

\* C3 (as stated): every call of the Verification Procedure evaluates all
\* six checks, whatever the outcome of the checks before them.
C3_AllChecksRun ==
    call.op = "assume" => call.ran = AllChecks

\* C3 (amended): is_not_null and initialized are evaluated on every call;
\* each other check is evaluated exactly when the check before it in its
\* group (is_not_null, is_aligned, has_permission / initialized, lifetime,
\* ownership) returned true; a token is returned exactly when all six
\* returned true.
C3_ShortCircuit ==
    call.op = "assume" =>
        /\ {"is_not_null", "initialized"} \subseteq call.ran
        /\ call.passed \subseteq call.ran
        /\ "is_aligned" \in call.ran <=> "is_not_null" \in call.passed
        /\ "has_permission" \in call.ran <=> "is_aligned" \in call.passed
        /\ "lifetime" \in call.ran <=> "initialized" \in call.passed
        /\ "ownership" \in call.ran <=> "lifetime" \in call.passed
        /\ call.ret.some <=> call.passed = AllChecks

C3_Witness ==
    /\ call.op = "assume"
    /\ "is_aligned" \in call.ran
    /\ "has_permission" \notin call.ran
    /\ "ownership" \in call.ran

\* C4: a scoped access (with or mut_with) to an address is made through a
\* live token for that address; a token comes to exist only in a step in
\* which assume on that same address returned it, and a step in which
\* assume returned None creates no token.
C4_VerifyBeforeAccess ==
    [][/\ call'.op \in {"with", "mut_with"} => call'.addr \in tokens
       /\ \A t \in tokens' \ tokens :
             /\ call'.op = "assume"
             /\ call'.ret = Some(t)
             /\ call'.addr = t]_vars

C4_Witness ==
    /\ call.op = "mut_with"
    /\ call.addr \in tokens
    /\ call.addr # 0

\* C5: a call of the Verification Procedure leaves the ownership state of
\* every granule unchanged, and its outcome is a token for the address or
\* the absent token; an absent token leaves the set of tokens unchanged.
C5_PureQuery ==
    [][call'.op = "assume" =>
         /\ granule' = granule
         /\ call'.ret \in {None, Some(call'.addr)}
         /\ ~call'.ret.some => tokens' = tokens]_vars

C5_Witness ==
    /\ call.op = "assume"
    /\ call.ret.some
    /\ call.state = "Data"

C5_WitnessNone ==
    /\ call.op = "assume"
    /\ ~call.ret.some
    /\ call.state = "Data"

\* A step of set_ripas_state that could read the registers of the vCPU.
SetStep == rsi'.op = "set" /\ rsi'.valid

\* What both rejecting branches of set_ripas_state leave behind.
Rejected ==
    /\ regs' = [regs EXCEPT ![0] = rsi_ERROR_INPUT]
    /\ rsi'.result = "Ok"
    /\ ret0' = rmi_SUCCESS_REC_ENTER
    /\ rec' = rec
    /\ run' = run

\* The range x1..x2 is not empty, granule-aligned and inside the protected
\* region.
WellFormedRange(x1, x2) ==
    /\ x2 > x1
    /\ is_granule_aligned(x1)
    /\ is_granule_aligned(x2)
    /\ is_protected_ipa(x1, IPA_BITS)
    /\ is_protected_ipa(x2 - 1, IPA_BITS)

\* C6: when set_ripas_state is called with ipa_end <= ipa_start, register 0
\* becomes ERROR_INPUT, the handler returns Ok with ret[0] =
\* SUCCESS_REC_ENTER, and the pending RIPAS request of the execution
\* context, the run record and the other registers stay as they were.
C6_EmptyRange ==
    [][(SetStep /\ regs[2] <= regs[1]) => Rejected]_vars

C6_Witness ==
    /\ rsi.op = "set"
    /\ rsi.valid
    /\ regs[2] <= regs[1]
    /\ regs[0] = rsi_ERROR_INPUT
    /\ run.exit_reason = EXIT_RIPAS_CHANGE
    /\ ret0 = rmi_SUCCESS_REC_ENTER

\* C7: when ipa_start or ipa_end is not granule-aligned, or ipa_start or
\* ipa_end - 1 is outside the protected range, set_ripas_state writes
\* ERROR_INPUT to register 0, returns Ok with ret[0] = SUCCESS_REC_ENTER and
\* records no pending range, state, flags or exit reason.
C7_MalformedRange ==
    [][(/\ SetStep
        /\ \/ ~is_granule_aligned(regs[1])
           \/ ~is_granule_aligned(regs[2])
           \/ ~is_protected_ipa(regs[1], IPA_BITS)
           \/ regs[2] = 0
           \/ ~is_protected_ipa(regs[2] - 1, IPA_BITS))
       => Rejected]_vars

C7_Witness ==
    /\ rsi.op = "set"
    /\ rsi.valid
    /\ regs[1] = 0
    /\ regs[2] = ParSize + GRANULE_SIZE
    /\ regs[3] = RAM
    /\ regs[0] = rsi_ERROR_INPUT

C7_WitnessMisaligned ==
    /\ rsi.op = "set"
    /\ rsi.valid
    /\ regs[1] = GRANULE_SIZE + 4
    /\ regs[2] = ParSize
    /\ regs[0] = rsi_ERROR_INPUT

\* C8 (as stated): set_ripas_state records a pending change only if the
\* value of register 3, over its full width, is exactly EMPTY or exactly
\* RAM; for every other value it rejects with ERROR_INPUT in register 0.
C8_OnlyTwoStates ==
    (rsi.op = "set" /\ rsi.valid) =>
        /\ rec # NoRipas => regs[3] \in {EMPTY, RAM}
        /\ regs[3] \notin {EMPTY, RAM} => regs[0] = rsi_ERROR_INPUT

\* C9: when set_ripas_state is called with a non-empty, granule-aligned
\* range inside the protected region and a requested state of EMPTY or RAM,
\* then on return the execution context holds the pending start, end and
\* state with the supplied flags, the run record holds the same range and
\* state, and the exit reason of the run is EXIT_RIPAS_CHANGE.
C9_SuccessRecords ==
    [][(/\ SetStep
        /\ WellFormedRange(regs[1], regs[2])
        /\ regs[3] \in {EMPTY, RAM})
       => /\ rsi'.result = "Ok"
          /\ rec'.start = regs[1]
          /\ rec'.end = regs[2]
          /\ rec'.state = regs[3]
          /\ rec'.flags = regs[4]
          /\ run'.ripas_base = regs[1]
          /\ run'.ripas_top = regs[2]
          /\ run'.ripas_value = regs[3]
          /\ run'.exit_reason = EXIT_RIPAS_CHANGE
          /\ run'.entry_flags = run.entry_flags]_vars

C9_Witness ==
    /\ rsi.op = "set"
    /\ rsi.valid
    /\ rec.start = GRANULE_SIZE
    /\ rec.end = ParSize
    /\ rec.state = RAM
    /\ rec.flags = 1
    /\ run.exit_reason = EXIT_RIPAS_CHANGE

\* C10 (as stated): when set_ripas_state accepts a valid, granule-aligned,
\* in-range request for state RAM, register 0 of the calling vCPU holds the
\* success code when the set handler returns.
C10_SetWritesSuccess ==
    (/\ rsi.op = "set"
     /\ rsi.valid
     /\ WellFormedRange(regs[1], regs[2])
     /\ regs[3] = RAM)
    => regs[0] = rsi_SUCCESS

\* C10 (amended): when set_ripas_state accepts a valid, granule-aligned,
\* in-range request for state RAM, the set handler leaves every register of
\* the calling vCPU, register 0 included, as it was and sets ret[0] to the
\* RMI success code; register 0 receives the success code when
\* complete_ripas completes the pending request on the next entry.
C10_SuccessCode ==
    [][/\ (/\ SetStep
           /\ WellFormedRange(regs[1], regs[2])
           /\ regs[3] = RAM)
          => (regs' = regs /\ ret0' = rmi_SUCCESS /\ rsi'.result = "Ok")
       /\ (/\ rsi'.op = "complete"
           /\ rsi'.valid
           /\ rec.end > 0)
          => regs'[0] = rsi_SUCCESS]_vars

C10_Witness ==
    /\ rsi.op = "set"
    /\ rsi.valid
    /\ WellFormedRange(regs[1], regs[2])
    /\ regs[3] = RAM
    /\ rec.state = RAM
    /\ regs[0] = RSI_IPA_STATE_SET
    /\ ret0 = rmi_SUCCESS

\* A step of get_ripas_state that could read register 1 of the vCPU.
GetStep == rsi'.op = "get" /\ rsi'.valid

\* C11: when get_ripas_state is called with a page address in register 1
\* that fails the validation, register 0 becomes ERROR_INPUT, the stage 2
\* table is not queried, register 1 and the pending RIPAS request stay as
\* they were, and the handler returns Ok with ret[0] = SUCCESS_REC_ENTER;
\* it returns the same, with no register changed, when the write of
\* register 0 fails.
C11_GetInvalid ==
    [][(GetStep /\ ~validate_ipa(regs[1], IPA_BITS)) =>
         /\ regs' = [regs EXCEPT ![0] = rsi_ERROR_INPUT]
         /\ ~queried'
         /\ rec' = rec
         /\ run' = run
         /\ rtt' = rtt
         /\ rsi'.result = "Ok"
         /\ ret0' = rmi_SUCCESS_REC_ENTER
         /\ LET o == get_ripas_state(regs, rec, run, ret0, rtt, TRUE, FALSE)
            IN /\ o.result = "Ok"
               /\ o.ret0 = rmi_SUCCESS_REC_ENTER
               /\ o.regs = regs
               /\ o.rec = rec
               /\ ~o.queried]_vars

C11_Witness ==
    /\ rsi.op = "get"
    /\ rsi.valid
    /\ regs[1] = ParSize + GRANULE_SIZE
    /\ regs[0] = rsi_ERROR_INPUT
    /\ ~queried
    /\ ret0 = rmi_SUCCESS_REC_ENTER

\* C12: when get_ripas_state is called with a valid page address, on return
\* register 0 holds SUCCESS, register 1 holds the RIPAS the stage 2 table
\* reports for the page, ret[0] = SUCCESS_REC_ENTER, and the RIPAS of every
\* page and the pending RIPAS request are as they were.
C12_GetSuccess ==
    [][(GetStep /\ validate_ipa(regs[1], IPA_BITS)) =>
         /\ regs' = [regs EXCEPT ![0] = rsi_SUCCESS,
                                 ![1] = rtt[regs[1] \div GRANULE_SIZE]]
         /\ queried'
         /\ rsi'.result = "Ok"
         /\ ret0' = rmi_SUCCESS_REC_ENTER
         /\ rtt' = rtt
         /\ rec' = rec
         /\ run' = run]_vars

C12_Witness ==
    /\ rsi.op = "get"
    /\ rsi.valid
    /\ rtt[1] = RAM
    /\ rtt[0] = EMPTY
    /\ regs[0] = rsi_SUCCESS
    /\ regs[1] = RAM
    /\ queried
    /\ ret0 = rmi_SUCCESS_REC_ENTER

\* A step of complete_ripas whose realm lookup succeeded.
CompleteStep == rsi'.op = "complete" /\ rsi'.valid

\* The RIPAS-response bit of the entry flags of the run record is set.
ResponseBit == (run.entry_flags \div REC_ENTRY_FLAG_RIPAS_RESPONSE) % 2 = 1

\* C13: when complete_ripas runs while a pending range is recorded (pending
\* end > 0), it writes SUCCESS to register 0, the pending address to
\* register 1, and to register 2 the value 1 (REJECT) exactly when the
\* RIPAS-response bit of the entry flags is set and 0 (ACCEPT) exactly when
\* it is clear; the other registers stay as they were.
C13_CompleteReports ==
    [][(CompleteStep /\ rec.end > 0) =>
         /\ rsi'.result = "Ok"
         /\ regs' = [regs EXCEPT ![0] = rsi_SUCCESS,
                                 ![1] = rec.addr,
                                 ![2] = IF ResponseBit THEN 1 ELSE 0]
         /\ run' = run]_vars

C13_Witness ==
    /\ rsi.op = "complete"
    /\ rsi.valid
    /\ run.entry_flags = REC_ENTRY_FLAG_RIPAS_RESPONSE
    /\ run.ripas_base = GRANULE_SIZE
    /\ regs[0] = rsi_SUCCESS
    /\ regs[1] = GRANULE_SIZE
    /\ regs[2] = 1

C13_WitnessAccept ==
    /\ rsi.op = "complete"
    /\ rsi.valid
    /\ run.entry_flags = 1
    /\ run.ripas_base = GRANULE_SIZE
    /\ regs[1] = GRANULE_SIZE
    /\ regs[2] = 0
    /\ regs[3] = RAM

\* C14: when complete_ripas runs on resume after a set has recorded a
\* pending range, the pending range, state and flags of the execution
\* context are zero when it returns; the realm never runs with a pending
\* RIPAS request.
C14_CompleteCloses ==
    [][/\ CompleteStep => rec' = NoRipas
       /\ phase' \in {"realm", "rsi_set"} => rec' = NoRipas]_vars

C14_Witness ==
    /\ rsi.op = "complete"
    /\ rsi.valid
    /\ rec = NoRipas
    /\ phase = "realm"
    /\ run.ripas_top = ParSize
    /\ run.ripas_value = RAM
    /\ regs[1] = GRANULE_SIZE
    /\ regs[2] = 1
    /\ regs[3] = RAM

\* C19: when complete_ripas runs while no pending range is recorded (pending
\* end = 0) it writes no register, changes nothing in the execution context
\* and returns Ok; running complete_ripas a second time, after a first run
\* that completed a pending request, changes nothing either.
C19_CompleteIdempotent ==
    [][/\ (CompleteStep /\ rec.end = 0) =>
            /\ rsi'.result = "Ok"
            /\ regs' = regs
            /\ rec' = rec
            /\ run' = run
            /\ ret0' = ret0
       /\ phase = "enter" =>
            LET o1 == complete_ripas(regs, rec, run, ret0, TRUE)
                o2 == complete_ripas(o1.regs, o1.rec, o1.run, o1.ret0, TRUE)
            IN o2 = o1]_vars

C19_Witness ==
    /\ rsi.op = "complete"
    /\ rsi.valid
    /\ rsi.result = "Ok"
    /\ rec = NoRipas
    /\ regs[0] = RSI_IPA_STATE_SET
    /\ regs[2] = ParSize

C19_WitnessPending ==
    /\ phase = "enter"
    /\ rec.end = ParSize
    /\ rec.state = RAM
    /\ regs[0] = RSI_IPA_STATE_SET

\* Layout of the overlay as the compiler lays it out.
HostCallLayout == HostCallFields(PADDING)

\* C15: the size of HostCall is discriminant (2 bytes) + padding0 (6) + 7
\* registers of 8 bytes + padding1 (4032) with no implicit padding, and it
\* equals the granule size (4096); the discriminant is at offset 0 and the
\* register array starts at an 8-byte-aligned offset, so every register
\* slot set_gpr writes is an aligned 8-byte slot inside the granule.
C15_OverlayLayout ==
    /\ size_of(HostCallLayout) = GRANULE_SIZE
    /\ size_of(HostCallLayout) = 2 + 6 + 7 * 8 + 4032
    /\ \A i \in 2..Len(HostCallLayout) :
          offset_of(HostCallLayout, i) =
             offset_of(HostCallLayout, i - 1) + HostCallLayout[i - 1].size
    /\ offset_of(HostCallLayout, field(HostCallLayout, "imm")) = 0
    /\ offset_of(HostCallLayout, field(HostCallLayout, "gprs")) % 8 = 0
    /\ (hc.op = "set_gpr" /\ hc.ret = "Ok") =>
          /\ hc.offset = 8 + 8 * hc.idx
          /\ hc.offset % 8 = 0
          /\ hc.offset + 8 <= GRANULE_SIZE - 4032

C15_Witness ==
    /\ hc.op = "set_gpr"
    /\ hc.ret = "Ok"
    /\ hc.idx = HOST_CALL_NR_GPRS - 1
    /\ hc.offset = 56
    /\ hostcall.gprs[HOST_CALL_NR_GPRS - 1] = 1

\* C18: set_gpr(idx, val) with idx >= 7 returns RmiErrorInput and leaves
\* every register slot and the discriminant unchanged; with idx < 7 it
\* returns Ok, sets slot idx to val and leaves every other slot and the
\* discriminant unchanged.
C18_SetGprBounds ==
    [][hc'.op = "set_gpr" =>
         IF hc'.idx >= 7
         THEN /\ hc'.ret = "RmiErrorInput"
              /\ hostcall' = hostcall
         ELSE /\ hc'.ret = "Ok"
              /\ hostcall'.gprs[hc'.idx] = hc'.val
              /\ \A i \in DOMAIN hostcall.gprs :
                    i # hc'.idx => hostcall'.gprs[i] = hostcall.gprs[i]
              /\ DOMAIN hostcall'.gprs = DOMAIN hostcall.gprs
              /\ hostcall'.imm = hostcall.imm]_vars

C18_Witness ==
    /\ hc.op = "set_gpr"
    /\ hc.idx = HOST_CALL_NR_GPRS
    /\ hc.val = 1
    /\ hc.ret = "RmiErrorInput"
    /\ hostcall.imm = 1
    /\ hostcall.gprs[HOST_CALL_NR_GPRS - 1] = 0
    /\ hostcall.gprs[0] = 1

C18_WitnessOk ==
    /\ hc.op = "set_gpr"
    /\ hc.idx = HOST_CALL_NR_GPRS - 1
    /\ hc.val = 1
    /\ hc.ret = "Ok"
    /\ hostcall.imm = 1
    /\ hostcall.gprs[HOST_CALL_NR_GPRS - 1] = 1
    /\ hostcall.gprs[0] = 0

\* The type every token of the model was verified for: assume::<HostCall>.
VerifiedType == "HostCall"

\* C16: every with::<T> or mut_with::<T> made through a token interprets
\* the memory as the overlay type whose permission binding and asserted
\* invariants were checked when the token was produced.
C16_AccessAsVerified ==
    call.op \in {"with", "mut_with"} => call.type = VerifiedType

\* Granules the overlay [a, a + size_of::<HostCall>()) has bytes in.
OverlayGranules(a) ==
    {b \div GRANULE_SIZE : b \in {a, a + size_of(HostCallLayout) - 1}}

\* C17: for every non-null, word-aligned address a for which
\* assume::<HostCall>(a) returns a token, every byte of the overlay
\* [a, a + size_of(HostCall)) lies in a granule that is in the Data state
\* at verification: the overlay does not reach into a granule other than
\* the one whose state was queried.
C17_OverlayCovered ==
    (/\ call.op = "assume"
     /\ call.ret.some
     /\ call.addr # 0
     /\ call.addr % WORD_ALIGN = 0) =>
        /\ OverlayGranules(call.addr) = {align_down(call.addr) \div GRANULE_SIZE}
        /\ \A i \in OverlayGranules(call.addr) :
              get_granule_if(granule, i * GRANULE_SIZE, "Data")
====
